---- MODULE Spec2Model ----
(***************************************************************************)
(* Model of acf-parser (src/src/parser.rs, src/src/errors.rs).             *)
(*                                                                         *)
(* A text is a sequence of one-character strings.  A cursor is a 1-based   *)
(* index into the text; Len(s)+1 is the end of input.  Every parser is an  *)
(* operator from (text, cursor) to either Fail or a record holding the     *)
(* cursor reached and the output produced, following the combinators of    *)
(* parser.rs: `then` runs its parts in sequence and fails when one fails,  *)
(* `padded` skips whitespace before and after its parser, `repeated` runs  *)
(* its parser until it fails and rewinds the cursor to the start of the    *)
(* failed iteration, `end` succeeds only at the end of input.              *)
(***************************************************************************)
EXTENDS Integers, Sequences, FiniteSets, TLC

VARIABLES path, file, pc, result

vars == <<path, file, pc, result>>

----------------------------------------------------------------------------
(* Bounds of the enumerated inputs *)

MaxPieces == 7
MaxExprs == 3
MaxChars == 5

----------------------------------------------------------------------------
(* Characters *)

DQ == "\""
BS == "\\"
Whitespace == {" ", "\t", "\n", "\r"}

----------------------------------------------------------------------------
(* errors.rs *)

ParseError_Unknown == [tag |-> "Unknown"]
ParseError_ExpectedClosingBrace(span) == [tag |-> "ExpectedClosingBrace", span |-> span]

AcfError_Read(p) == [tag |-> "Read", path |-> p]
AcfError_Parse(e) == [tag |-> "Parse", sub |-> e]
AcfError_Unknown == [tag |-> "Unknown"]

ResultOk(v) == [tag |-> "Ok", val |-> v]
ResultErr(e) == [tag |-> "Err", err |-> e]
NoResult == [tag |-> "None"]

----------------------------------------------------------------------------
(* parser.rs: data *)

Acf(entries) == [entries |-> entries]
Entry(name, expressions, entries) ==
    [name |-> name, expressions |-> expressions, entries |-> entries]
Expr(name, value) == [name |-> name, value |-> value]

----------------------------------------------------------------------------
(* parser.rs: combinators *)

Fail == [ok |-> FALSE]
Done(p, out) == [ok |-> TRUE, pos |-> p, out |-> out]

\* the whitespace skip of `.padded()`: the first cursor at or after p that is
\* not on a whitespace character
RECURSIVE skip_ws(_, _)
skip_ws(s, p) ==
    IF p <= Len(s) /\ s[p] \in Whitespace THEN skip_ws(s, p + 1) ELSE p

\* a.padded(), r being the result of a run from skip_ws(s, p): the whitespace
\* after a is skipped
padded(s, r) == IF r.ok THEN Done(skip_ws(s, r.pos), r.out) ELSE Fail

\* just(c)
just(c, s, p) == IF p <= Len(s) /\ s[p] = c THEN Done(p + 1, c) ELSE Fail

\* (variant: a backslash protects the double quote that follows it)
RECURSIVE none_of_quote_escaped(_, _)
none_of_quote_escaped(s, p) ==
    IF p < Len(s) /\ s[p] = BS /\ s[p + 1] = DQ THEN none_of_quote_escaped(s, p + 2)
    ELSE IF p <= Len(s) /\ s[p] # DQ THEN none_of_quote_escaped(s, p + 1) ELSE p

\* none_of('"').repeated(): the first cursor at or after p that is on a
\* double quote, or the end of input
RECURSIVE none_of_quote_repeated(_, _)
none_of_quote_repeated(s, p) ==
    IF p <= Len(s) /\ s[p] # DQ THEN none_of_quote_repeated(s, p + 1) ELSE p

\* a.then(b), a having given out and r being the result of b
then(out, r) == IF r.ok THEN Done(r.pos, <<out, r.out>>) ELSE Fail

\* a.then_ignore(b), a having given out and r being the result of b
then_ignore(out, r) == IF r.ok THEN Done(r.pos, out) ELSE Fail

\* a.ignore_then(b), r being the result of b
ignore_then(r) == r

\* none_of('"').repeated().to_slice(): the characters from cursor p up to the
\* cursor q reached
to_slice(s, p, q) == Done(q, SubSeq(s, p, q - 1))

\* .then_ignore(just('"')), val being the result of the slice
str_close(s, val) ==
    IF val.ok THEN then_ignore(val.out, just(DQ, s, val.pos)) ELSE Fail

\* just('"').ignore_then(none_of('"').repeated().to_slice()), open being the
\* result of just('"')
str_open(s, open) ==
    IF open.ok
    THEN ignore_then(to_slice(s, open.pos, none_of_quote_repeated(s, open.pos)))
    ELSE Fail

\* String literal parser
str_parser(s, p) == padded(s, str_close(s, str_open(s, just(DQ, s, skip_ws(s, p)))))

\* .map(|(str1, str2)| Expr { .. })
expr_map(r) == IF r.ok THEN Done(r.pos, Expr(r.out[1], r.out[2])) ELSE Fail

\* .then(str_parser()), str1 being the result of str_parser().padded()
expr_then(s, str1) ==
    IF str1.ok THEN then(str1.out, str_parser(s, str1.pos)) ELSE Fail

\* Expression parser
expr_parser(s, p) ==
    expr_map(padded(s, expr_then(s, padded(s, str_parser(s, skip_ws(s, skip_ws(s, p)))))))

RECURSIVE exprs_repeated(_, _, _)

\* one iteration of .repeated(), r being the result of expr_parser().padded()
\* run from cursor p: a failure ends the repetition at p
exprs_collect(s, p, acc, r) ==
    IF r.ok THEN exprs_repeated(s, r.pos, Append(acc, r.out)) ELSE Done(p, acc)

\* expr_parser().padded().repeated().collect::<Vec<_>>()
exprs_repeated(s, p, acc) ==
    exprs_collect(s, p, acc, padded(s, expr_parser(s, skip_ws(s, p))))

\* (variant: an existing key keeps its value)
insert_keep(m, k, v) == [x \in (DOMAIN m) \cup {k} |-> IF x \in DOMAIN m THEN m[x] ELSE v]

\* HashMap::insert
insert(m, k, v) == [x \in (DOMAIN m) \cup {k} |-> IF x = k THEN v ELSE m[x]]

\* names.zip(values).collect() into a HashMap: the pairs are inserted in order
RECURSIVE collect_from(_, _, _)
collect_from(m, expressions, i) ==
    IF i > Len(expressions) THEN m
    ELSE collect_from(insert(m, expressions[i].name, expressions[i].value),
                      expressions, i + 1)

collect(expressions) == collect_from([x \in {} |-> x], expressions, 1)

RECURSIVE entry_parser(_, _)
RECURSIVE entries_repeated(_, _, _)

\* (variant: expressions are accepted, and dropped, between the sub-entries)
entries_collect_lenient(s, p, acc, r) ==
    IF r.ok THEN entries_repeated(s, r.pos, Append(acc, r.out))
    ELSE IF padded(s, expr_parser(s, skip_ws(s, p))).ok
         THEN entries_repeated(s, padded(s, expr_parser(s, skip_ws(s, p))).pos, acc)
         ELSE Done(p, acc)

\* (variant: each entry is put in front of the ones collected before it)
entries_collect_reversed(s, p, acc, r) ==
    IF r.ok THEN entries_repeated(s, r.pos, <<r.out>> \o acc) ELSE Done(p, acc)

\* one iteration of .repeated(), r being the result of entry_parser().padded()
\* run from cursor p: a failure ends the repetition at p
entries_collect(s, p, acc, r) ==
    IF r.ok THEN entries_repeated(s, r.pos, Append(acc, r.out)) ELSE Done(p, acc)

\* entry_parser().padded().repeated().collect::<Vec<_>>() in acf_parser,
\* rec_parser.padded().repeated().collect::<Vec<_>>() in entry_parser
entries_repeated(s, p, acc) ==
    entries_collect(s, p, acc, padded(s, entry_parser(s, skip_ws(s, p))))

\* .then_ignore(just("{").padded()), name being the result of
\* str_parser().padded()
entry_open(s, name) ==
    IF name.ok
    THEN then_ignore(name.out, padded(s, just("{", s, skip_ws(s, name.pos))))
    ELSE Fail

\* .then(expr_parser().padded().repeated().collect::<Vec<_>>())
entry_expressions(s, open) ==
    IF open.ok THEN then(open.out, exprs_repeated(s, open.pos, <<>>)) ELSE Fail

\* .then(rec_parser.padded().repeated().collect::<Vec<_>>())
entry_entries(s, expressions) ==
    IF expressions.ok
    THEN then(expressions.out, entries_repeated(s, expressions.pos, <<>>))
    ELSE Fail

\* .then_ignore(just("}").padded())
entry_close(s, entries) ==
    IF entries.ok
    THEN then_ignore(entries.out, padded(s, just("}", s, skip_ws(s, entries.pos))))
    ELSE Fail

\* .map(|((name, expressions), entries)| Entry { .. })
entry_map(r) ==
    IF r.ok THEN Done(r.pos, Entry(r.out[1][1], collect(r.out[1][2]), r.out[2]))
    ELSE Fail

\* Entry parser
entry_parser(s, p) ==
    entry_map(entry_close(s, entry_entries(s, entry_expressions(s,
        entry_open(s, padded(s, str_parser(s, skip_ws(s, p))))))))

\* end()
end(s, p) == IF p = Len(s) + 1 THEN Done(p, <<>>) ELSE Fail

\* .then_ignore(end()), entries being the result of the repetition of entries
acf_end(s, entries) ==
    IF entries.ok THEN then_ignore(entries.out, end(s, entries.pos)) ELSE Fail

\* (variant: the end of input is not required)
acf_parser_no_end(s) == entries_repeated(s, 1, <<>>)

\* (variant: at most one root entry is parsed)
acf_parser_single(s) ==
    IF padded(s, entry_parser(s, skip_ws(s, 1))).ok
    THEN acf_end(s, Done(padded(s, entry_parser(s, skip_ws(s, 1))).pos,
                         <<padded(s, entry_parser(s, skip_ws(s, 1))).out>>))
    ELSE acf_end(s, Done(1, <<>>))

\* ACF parser
acf_parser(s) == acf_end(s, entries_repeated(s, 1, <<>>))

\* fs::read_to_string
Readable(text) == [readable |-> TRUE, text |-> text]
Unreadable == [readable |-> FALSE]

\* acf_parser().parse(&contents).into_result(), and the match on it
into_result(r) ==
    IF r.ok THEN ResultOk(Acf(r.out))
    ELSE ResultErr(AcfError_Parse(ParseError_Unknown))

\* (variant: a failed read gives the default error value)
parse_acf_default(p, f) ==
    IF ~f.readable THEN ResultErr(AcfError_Unknown)
    ELSE into_result(acf_parser(f.text))

\* ACF file parser
parse_acf(p, f) ==
    IF ~f.readable THEN ResultErr(AcfError_Read(p))
    ELSE into_result(acf_parser(f.text))

----------------------------------------------------------------------------
(* Inputs *)

RECURSIVE SeqsUpTo(_, _)
SeqsUpTo(S, n) ==
    IF n = 0 THEN {<<>>}
    ELSE LET shorter == SeqsUpTo(S, n - 1)
         IN  shorter \cup {Append(q, x) : q \in {t \in shorter : Len(t) = n - 1}, x \in S}

RECURSIVE Flatten(_)
Flatten(ss) == IF ss = <<>> THEN <<>> ELSE Head(ss) \o Flatten(Tail(ss))

Lit(c) == <<DQ, c, DQ>>

Letters == <<"a", "b", "c", "d", "e", "f", "g", "h", "i", "j">>
Letter(i) == Letters[((i - 1) % Len(Letters)) + 1]

\* the parts of a document: a block opening, a block closing, an expression
TreePieces == {"open", "close", "expr"}

\* the parts from the i-th on, written one after the other, with ws before
\* each token and after the last one; the i-th part takes the i-th letter as
\* the name of its block or the value of its expression
RECURSIVE Render(_, _, _)
Render(ps, i, ws) ==
    IF i > Len(ps) THEN ws
    ELSE (CASE ps[i] = "open" -> ws \o Lit(Letter(i)) \o ws \o <<"{">>
            [] ps[i] = "close" -> ws \o <<"}">>
            [] ps[i] = "expr" -> ws \o Lit("k") \o ws \o Lit(Letter(i)))
         \o Render(ps, i + 1, ws)

Styles == { <<>>, <<"\n", "\t">> }

TreeTexts ==
    { Render(ps, 1, ws) : ps \in SeqsUpTo(TreePieces, MaxPieces), ws \in Styles }

\* one block with expressions only
ExprPieces == { Lit(k) \o Lit(v) : k \in {"k", "j"}, v \in {"1", " "} }

ExprTexts ==
    { Lit("a") \o <<"{">> \o Flatten(es) \o <<"}">> :
        es \in SeqsUpTo(ExprPieces, MaxExprs) }

Alphabet == {DQ, BS, " ", "{", "}"}

CharTexts == SeqsUpTo(Alphabet, MaxChars)

Texts == TreeTexts \cup ExprTexts \cup CharTexts

DefaultPath == "./acfs/simple.acf"
Paths == {DefaultPath, "./acfs/missing.acf"}

----------------------------------------------------------------------------
(* The program *)

Init ==
    /\ pc = "start"
    /\ result = NoResult
    /\ \/ /\ path \in Paths
          /\ file = Unreadable
       \/ /\ path = DefaultPath
          /\ file \in {Readable(t) : t \in Texts}

ParseAcf ==
    /\ pc = "start"
    /\ result' = parse_acf(path, file)
    /\ pc' = "done"
    /\ UNCHANGED <<path, file>>

Next == ParseAcf

Spec == Init /\ [][Next]_vars

----------------------------------------------------------------------------
(* The grammar of the format, on tokens:                                   *)
(*     document   := block* EOF                                            *)
(*     block      := literal '{' expression* block* '}'                    *)
(*     expression := literal literal                                       *)
(*     literal    := '"' (any-char-except '"')* '"'                        *)

Text == file.text
Parsed == pc = "done" /\ file.readable
IsOk == result.tag = "Ok"
IsParseErr == result.tag = "Err" /\ result.err.tag = "Parse"

Tok(t, v, at) == [t |-> t, v |-> v, at |-> at]

\* the cursors after p that are on a double quote
QuotesAfter(s, p) == {q \in (p + 1)..Len(s) : s[q] = DQ}
Lowest(S) == CHOOSE x \in S : \A y \in S : x <= y
Highest(S) == CHOOSE x \in S : \A y \in S : x >= y

\* the tokens of s from cursor p on; ok is FALSE when some character
\* outside the literals is neither whitespace nor a brace, or when a literal
\* is not closed
RECURSIVE Lex(_, _, _)
Lex(s, p, acc) ==
    IF p > Len(s) THEN [ok |-> TRUE, toks |-> acc]
    ELSE IF s[p] \in Whitespace THEN Lex(s, p + 1, acc)
    ELSE IF s[p] \in {"{", "}"} THEN Lex(s, p + 1, Append(acc, Tok(s[p], <<>>, p)))
    ELSE IF s[p] = DQ /\ QuotesAfter(s, p) # {}
         THEN LET q == Lowest(QuotesAfter(s, p))
              IN  Lex(s, q + 1, Append(acc, Tok("lit", SubSeq(s, p + 1, q - 1), p)))
    ELSE [ok |-> FALSE, toks |-> acc]

Tokens(s) == Lex(s, 1, <<>>)

IsLit(toks, i) == i \in 1..Len(toks) /\ toks[i].t = "lit"
IsTok(toks, i, c) == i \in 1..Len(toks) /\ toks[i].t = c

RECURSIVE GExprs(_, _, _)
GExprs(toks, i, acc) ==
    IF IsLit(toks, i) /\ IsLit(toks, i + 1)
    THEN GExprs(toks, i + 2, Append(acc, <<toks[i].v, toks[i + 1].v>>))
    ELSE [pos |-> i, out |-> acc]

RECURSIVE GBlock(_, _)
RECURSIVE GBlocks(_, _, _)
GBlock(toks, i) ==
    IF IsLit(toks, i) /\ IsTok(toks, i + 1, "{")
    THEN LET es == GExprs(toks, i + 2, <<>>)
             bs == GBlocks(toks, es.pos, <<>>)
         IN  IF IsTok(toks, bs.pos, "}")
             THEN [ok |-> TRUE, pos |-> bs.pos + 1,
                   out |-> [name |-> toks[i].v, pairs |-> es.out, children |-> bs.out]]
             ELSE [ok |-> FALSE]
    ELSE [ok |-> FALSE]

GBlocks(toks, i, acc) ==
    LET b == GBlock(toks, i)
    IN  IF b.ok THEN GBlocks(toks, b.pos, Append(acc, b.out))
        ELSE [pos |-> i, out |-> acc]

\* the token sequence is a document of the grammar
IsDocument(toks) == GBlocks(toks, 1, <<>>).pos = Len(toks) + 1
\* its blocks
Blocks(toks) == GBlocks(toks, 1, <<>>).out

InGrammar(s) == Tokens(s).ok /\ IsDocument(Tokens(s).toks)
TextBlocks(s) == Blocks(Tokens(s).toks)

Keys(pairs) == {pairs[i][1] : i \in 1..Len(pairs)}
ValuesOf(pairs, k) == {pairs[i][2] : i \in {j \in 1..Len(pairs) : pairs[j][1] = k}}
LastValue(pairs, k) == pairs[Highest({j \in 1..Len(pairs) : pairs[j][1] = k})][2]

\* all the blocks of a list of blocks, at every depth
RECURSIVE AllBlocks(_)
AllBlocks(bs) ==
    IF bs = <<>> THEN {}
    ELSE {Head(bs)} \cup AllBlocks(Head(bs).children) \cup AllBlocks(Tail(bs))

----------------------------------------------------------------------------
(* C1: a text in which a block is opened and its closing brace is absent   *)
(* before the end of input fails with Parse(ExpectedClosingBrace(span)),   *)
(* span starting in the text, and not with Parse(Unknown).                 *)

RECURSIVE Braces(_)
Braces(n) == IF n = 0 THEN <<>> ELSE <<Tok("}", <<>>, 0)>> \o Braces(n - 1)

\* the text lacks nothing but closing braces at its end
Unclosed(s) ==
    /\ Tokens(s).ok
    /\ \E n \in 1..Len(Tokens(s).toks) : IsDocument(Tokens(s).toks \o Braces(n))

C1_ExpectedClosingBrace ==
    (Parsed /\ Unclosed(Text)) =>
        /\ IsParseErr
        /\ result.err.sub.tag = "ExpectedClosingBrace"
        /\ result.err.sub.span \in 1..Len(Text)

----------------------------------------------------------------------------
(* C2: parsing is all-or-nothing: the result is Ok only if the whole text  *)
(* is a sequence of complete blocks, and then it holds every block of the  *)
(* text; a text that is not such a sequence gives a Parse error.           *)

C2_AllOrNothing ==
    Parsed =>
        /\ IsOk => /\ InGrammar(Text)
                   /\ Len(result.val.entries) = Len(TextBlocks(Text))
        /\ ~InGrammar(Text) => IsParseErr

\* the text starts with a complete block and goes on with something else
C2_Witness ==
    /\ Parsed
    /\ Tokens(Text).ok
    /\ ~IsDocument(Tokens(Text).toks)
    /\ Blocks(Tokens(Text).toks) # <<>>
    /\ IsParseErr

----------------------------------------------------------------------------
(* C3: a text with an expression after a child block, at the same nesting  *)
(* level, is never accepted: the result is a Parse error.                  *)

Depth(toks, i) ==
    Cardinality({j \in 1..i : toks[j].t = "{"}) - Cardinality({j \in 1..i : toks[j].t = "}"})

\* token i closes a child block and two literals, not followed by an opening
\* brace, come next
LateExprAt(toks, i) ==
    /\ IsTok(toks, i, "}")
    /\ Depth(toks, i) >= 1
    /\ IsLit(toks, i + 1)
    /\ IsLit(toks, i + 2)
    /\ ~IsTok(toks, i + 3, "{")

LateExpr(toks) == \E i \in 1..Len(toks) : LateExprAt(toks, i)

C3_ExpressionsPrecedeChildren ==
    (Parsed /\ Tokens(Text).ok /\ LateExpr(Tokens(Text).toks)) => IsParseErr

\* an expression after a child block is all that is wrong with the text
C3_Witness ==
    /\ Parsed
    /\ Tokens(Text).ok
    /\ \E i \in 1..Len(Tokens(Text).toks) :
          LET toks == Tokens(Text).toks
          IN  /\ LateExprAt(toks, i)
              /\ IsDocument(SubSeq(toks, 1, i) \o SubSeq(toks, i + 3, Len(toks)))
    /\ IsParseErr

----------------------------------------------------------------------------
(* C4: duplicate keys are last-write-wins: after a successful parse every  *)
(* block's mapping holds, for each key written in the block, the value of  *)
(* the key's last occurrence, and has as many keys as the block has        *)
(* distinct keys.                                                          *)

RECURSIVE LastWriteWins(_, _)
LastWriteWins(entry, block) ==
    /\ DOMAIN entry.expressions = Keys(block.pairs)
    /\ Cardinality(DOMAIN entry.expressions) = Cardinality(Keys(block.pairs))
    /\ \A k \in Keys(block.pairs) : entry.expressions[k] = LastValue(block.pairs, k)
    /\ Len(entry.entries) = Len(block.children)
    /\ \A i \in 1..Len(block.children) :
          LastWriteWins(entry.entries[i], block.children[i])

C4_LastWriteWins ==
    (Parsed /\ IsOk /\ InGrammar(Text)) =>
        /\ Len(result.val.entries) = Len(TextBlocks(Text))
        /\ \A i \in 1..Len(TextBlocks(Text)) :
              LastWriteWins(result.val.entries[i], TextBlocks(Text)[i])

\* a block has one key with two values and another key
C4_Witness ==
    /\ Parsed /\ IsOk /\ InGrammar(Text)
    /\ \E b \in AllBlocks(TextBlocks(Text)) :
          /\ \E k \in Keys(b.pairs) : Cardinality(ValuesOf(b.pairs, k)) > 1
          /\ Cardinality(Keys(b.pairs)) > 1
          /\ Len(b.pairs) > Cardinality(Keys(b.pairs))

----------------------------------------------------------------------------
(* C5: a text made of blocks of the grammar parses successfully and the    *)
(* tree mirrors the text: a block's name is the literal before its brace,  *)
(* its mapping has the keys written directly in it with values written for *)
(* them, its children are its nested blocks in source order, at every      *)
(* depth.                                                                  *)

RECURSIVE Mirrors(_, _)
Mirrors(entry, block) ==
    /\ entry.name = block.name
    /\ DOMAIN entry.expressions = Keys(block.pairs)
    /\ \A k \in Keys(block.pairs) : entry.expressions[k] \in ValuesOf(block.pairs, k)
    /\ Len(entry.entries) = Len(block.children)
    /\ \A i \in 1..Len(block.children) : Mirrors(entry.entries[i], block.children[i])

C5_TreeMirrorsSource ==
    (Parsed /\ InGrammar(Text) /\ TextBlocks(Text) # <<>>) =>
        /\ IsOk
        /\ Len(result.val.entries) = Len(TextBlocks(Text))
        /\ \A i \in 1..Len(TextBlocks(Text)) :
              Mirrors(result.val.entries[i], TextBlocks(Text)[i])

\* a block with an expression and two children of different names
C5_Witness ==
    /\ Parsed /\ IsOk
    /\ \E i \in 1..Len(result.val.entries) :
          LET e == result.val.entries[i]
          IN  /\ DOMAIN e.expressions # {}
              /\ Len(e.entries) = 2
              /\ e.entries[1].name # e.entries[2].name
              /\ e.entries[1].name # e.name

----------------------------------------------------------------------------
(* C7: any number of top-level blocks is accepted: the empty text gives a  *)
(* document with zero blocks, a text of N >= 2 blocks gives a document     *)
(* with these N blocks in file order.                                      *)

----------------------------------------------------------------------------
(* C8: a literal has no escape mechanism: a scanned literal is the         *)
(* characters between its opening quote and the next quote, kept as they   *)
(* are; a literal with no closing quote is not scanned, and the parse of a *)
(* text with such a literal fails.                                         *)

C8_LiteralVerbatim ==
    Parsed =>
        /\ \A p \in 1..Len(Text) :
              Text[p] = DQ =>
                  LET r == str_parser(Text, p)
                  IN  IF QuotesAfter(Text, p) = {} THEN ~r.ok
                      ELSE /\ r.ok
                           /\ r.out = SubSeq(Text, p + 1, Lowest(QuotesAfter(Text, p)) - 1)
        /\ (Cardinality({p \in 1..Len(Text) : Text[p] = DQ}) % 2 = 1) => IsParseErr

\* a block whose name is a backslash: the quote after the backslash closed it
C8_Witness ==
    /\ Parsed /\ IsOk
    /\ Len(result.val.entries) = 1
    /\ result.val.entries[1].name = <<BS>>

----------------------------------------------------------------------------
(* C9: a failure is a Read error carrying the path when the source cannot  *)
(* be read, a Parse error with a sub-classification when the text is       *)
(* rejected, and never the top-level Unknown.                              *)

C9_FailureClassified ==
    pc = "done" =>
        /\ result.tag \in {"Ok", "Err"}
        /\ ~file.readable => result = ResultErr(AcfError_Read(path))
        /\ (file.readable /\ result.tag = "Err") =>
              /\ result.err.tag = "Parse"
              /\ result.err.sub.tag \in {"Unknown", "ExpectedClosingBrace"}
        /\ result # ResultErr(AcfError_Unknown)

C9_Witness ==
    /\ pc = "done"
    /\ ~file.readable
    /\ path # DefaultPath
    /\ result = ResultErr(AcfError_Read(path))

----------------------------------------------------------------------------
(* C6: whitespace outside the literals is insignificant: the result for a  *)
(* text is the result for the text without it; a text of whitespace only   *)
(* gives the result of the empty text.                                     *)

\* s from cursor p on, without the whitespace outside the literals
RECURSIVE StripWs(_, _)
StripWs(s, p) ==
    IF p > Len(s) THEN <<>>
    ELSE IF s[p] \in Whitespace THEN StripWs(s, p + 1)
    ELSE IF s[p] = DQ /\ QuotesAfter(s, p) # {}
         THEN LET q == Lowest(QuotesAfter(s, p))
              IN  SubSeq(s, p, q) \o StripWs(s, q + 1)
    ELSE IF s[p] = DQ THEN SubSeq(s, p, Len(s))
    ELSE <<s[p]>> \o StripWs(s, p + 1)

C6_WhitespaceInsignificant ==
    Parsed => result = parse_acf(path, Readable(StripWs(Text, 1)))

====
